---- MODULE Spec2Model ----
(***************************************************************************)
(* Model of the filing-ingestion program: the metadata store (store.py),   *)
(* the orchestrator main/pipeline (main.py) and combine_documents          *)
(* (main.py).                                                              *)
(*                                                                         *)
(*   Spec         main(args) run repeatedly against the persistent store   *)
(*   SpecStore    a client calling the store module's functions            *)
(*   SpecCombine  combine_documents over bounded directory contents        *)
(***************************************************************************)
EXTENDS Integers, Sequences, FiniteSets, TLC

VARIABLES
    _store_connection,  \* store.py:11  "None" | "open"
    _cursor,            \* store.py:12  "None" | "open" | "closed" (its connection was closed)
    tableExists,        \* DB_PATH holds the table DownloadedDocs
    rows,               \* the rows of DownloadedDocs, <<id, ticker, doc_type, dir_path, updated_at>>
    saved,              \* history: arguments of every committed save_info, in order
    result,             \* outcome of the client's last call of a store function
    pc,                 \* position of main
    args,               \* main's locals ticker, doc_type, save_dir
    raised,             \* exception in flight in main ("None" when there is none)
    actually_docs_save_path, \* pipeline local, main.py:164
    docs_path,          \* pipeline local, main.py:170
    run,                \* history of the present run of main
    log,                \* records emitted on logger MAIN in the present run
    cpc,                \* position of combine_documents
    dir_paths,          \* its argument: a sequence of directories, each the sequence of files loaded
    di,                 \* index of the directory being walked
    fi,                 \* index of the document being parsed
    xbrl_texts,         \* main.py:82
    p_span_tags,        \* main.py:100, for the last parsed document: indexes of the matched elements
    combined            \* the returned Document (page_content), and what left the call

storeVars   == <<_store_connection, _cursor, tableExists, rows, saved>>
mainVars    == <<pc, args, raised, actually_docs_save_path, docs_path, run, log>>
combineVars == <<cpc, dir_paths, di, fi, xbrl_texts, p_span_tags, combined>>
vars        == <<storeVars, result, mainVars, combineVars>>

None == "None"

\* ------------------------------------------------------------------ bounds
MaxId    == 3     \* rows ever inserted (the rowid counter is capped)
MaxDirs  == 2     \* directories given to combine_documents
MaxFiles == 3     \* files loaded from all the directories together

Tickers  == {"AAPL", "MSFT"}
DocTypes == {"10-K", "10-Q", "8-K"}
DirPaths == {"/p1", "/p2"}
TickerArgs == {"aapl", "MSFT"}
SaveDirs == {".", "/data"}

\* ------------------------------------------------------------------ helpers
\* Python's 0-based indexing of a tuple or list
PyIndex(seq, i) == seq[i + 1]

\* str.upper(), on the tickers and document types of the model
Upper(s) == CASE s = "aapl" -> "AAPL"
              [] s = "msft" -> "MSFT"
              [] OTHER -> s

Max(S) == CHOOSE m \in S : \A n \in S : n <= m

\* all orders in which the rows of S can be returned (SELECT without ORDER BY)
Orderings(S) ==
    {f \in [1..Cardinality(S) -> S] : \A i, j \in 1..Cardinality(S) : f[i] = f[j] => i = j}

\* ------------------------------------------------------------------ store.py
\* the module's state as one value
Store == [conn |-> _store_connection, cursor |-> _cursor,
          table |-> tableExists, rows |-> rows]

SetStore(s) ==
    /\ _store_connection' = s.conn
    /\ _cursor' = s.cursor
    /\ tableExists' = s.table
    /\ rows' = s.rows

\* what a call returns: the state it leaves, the exception it raised, its value
Ret(s, exc, value, printed) == [st |-> s, exc |-> exc, value |-> value, printed |-> printed]

\* store.py:29-34
close_store_conn(s) ==
    IF s.conn = None
    THEN \* line 32 prints, line 33 then calls close() on None
         Ret(s, "AttributeError", <<>>, TRUE)
    ELSE Ret([s EXCEPT !.conn = None,
                       !.cursor = IF s.cursor = "open" THEN "closed" ELSE s.cursor],
             None, <<>>, FALSE)

\* store.py:20-26; connectOk: sqlite3.connect(DB_PATH) succeeded
open_store_conn(s, connectOk) ==
    LET s1 == IF s.conn # None THEN close_store_conn(s).st ELSE s
    IN IF connectOk
       THEN Ret([s1 EXCEPT !.conn = "open", !.cursor = "open"], None, <<>>, FALSE)
       ELSE Ret(s1, "OperationalError", <<>>, FALSE)

\* the exception _cursor.execute raises before touching the table, if any
CursorError(s) ==
    CASE s.cursor = None -> "AttributeError"
      [] s.cursor = "closed" -> "ProgrammingError"
      [] OTHER -> None

\* store.py:37-48
create_downloaded_info_table(s) ==
    IF CursorError(s) # None
    THEN Ret(s, CursorError(s), <<>>, FALSE)
    ELSE Ret([s EXCEPT !.table = TRUE], None, <<>>, FALSE)

\* store.py:15-17
init_store(s, connectOk) ==
    LET o == open_store_conn(s, connectOk)
    IN IF o.exc # None THEN o ELSE create_downloaded_info_table(o.st)

\* rowid given to a new row: one more than the largest in the table
NewRowid(rs) == IF rs = {} THEN 1 ELSE Max({r[1] : r \in rs}) + 1

\* the table without the conflict clause: the row is added and nothing is deleted
InsertRowKeepsOld(rs, ticker, doc_type, save_dir) ==
    rs \cup {<<NewRowid(rs), ticker, doc_type, save_dir, "CURRENT_TIMESTAMP">>}

\* UNIQUE(ticker, doc_type) ON CONFLICT REPLACE, store.py:45: the rows in
\* conflict with the new one are deleted, then it is inserted
InsertRow(rs, ticker, doc_type, save_dir) ==
    {r \in rs : ~(r[2] = ticker /\ r[3] = doc_type)}
        \cup {<<NewRowid(rs), ticker, doc_type, save_dir, "CURRENT_TIMESTAMP">>}

\* store.py:51-54
save_info(s, ticker, doc_type, save_dir) ==
    IF CursorError(s) # None
    THEN Ret(s, CursorError(s), <<>>, FALSE)
    ELSE IF ~s.table
    THEN Ret(s, "OperationalError", <<>>, FALSE)
    ELSE Ret([s EXCEPT !.rows = InsertRow(s.rows, ticker, doc_type, save_dir)],
             None, <<>>, FALSE)

\* a query that leaves out the doc_type condition
SelectedByTicker(rs, ticker, doc_type) == {r \in rs : r[2] = ticker}

\* the rows get_info's query selects, store.py:58-63
Selected(rs, ticker, doc_type) ==
    IF doc_type = None
    THEN {r \in rs : r[2] = ticker}
    ELSE {r \in rs : r[2] = ticker /\ r[3] = doc_type}

\* store.py:57-65; the possible returns, one for each order of the rows
get_info(s, ticker, doc_type) ==
    IF CursorError(s) # None
    THEN {Ret(s, CursorError(s), <<>>, FALSE)}
    ELSE IF ~s.table
    THEN {Ret(s, "OperationalError", <<>>, FALSE)}
    ELSE {Ret(s, None, f, FALSE) : f \in Orderings(Selected(s.rows, ticker, doc_type))}

\* ------------------------------------------------------------------ a client of store.py
NoResult == [op |-> None, exc |-> None, value |-> <<>>, printed |-> FALSE, pre |-> None]

Called(op, o) ==
    /\ result' = [op |-> op, exc |-> o.exc, value |-> o.value, printed |-> o.printed,
                  pre |-> _store_connection]
    /\ UNCHANGED <<pc, args, raised, actually_docs_save_path, docs_path, run, log>>
    /\ UNCHANGED <<cpc, dir_paths, di, fi, xbrl_texts, p_span_tags, combined>>

CallInitStore ==
    \E connectOk \in BOOLEAN :
        LET o == init_store(Store, connectOk)
        IN SetStore(o.st) /\ Called("init_store", o) /\ UNCHANGED saved

CallOpenStoreConn ==
    \E connectOk \in BOOLEAN :
        LET o == open_store_conn(Store, connectOk)
        IN SetStore(o.st) /\ Called("open_store_conn", o) /\ UNCHANGED saved

CallCloseStoreConn ==
    LET o == close_store_conn(Store)
    IN SetStore(o.st) /\ Called("close_store_conn", o) /\ UNCHANGED saved

CallSaveInfo ==
    \E ticker \in Tickers, doc_type \in DocTypes, save_dir \in DirPaths :
        LET o == save_info(Store, ticker, doc_type, save_dir)
        IN /\ NewRowid(rows) <= MaxId
           /\ SetStore(o.st)
           /\ Called("save_info", o)
           /\ saved' = IF o.exc = None
                       THEN Append(saved, <<ticker, doc_type, save_dir>>)
                       ELSE saved

CallGetInfo ==
    \E ticker \in Tickers, doc_type \in DocTypes \cup {None} :
        \E o \in get_info(Store, ticker, doc_type) :
            SetStore(o.st) /\ Called("get_info", o) /\ UNCHANGED saved

NextStore ==
    \/ CallInitStore
    \/ CallOpenStoreConn
    \/ CallCloseStoreConn
    \/ CallSaveInfo
    \/ CallGetInfo

\* ------------------------------------------------------------------ main.py: main and pipeline
Stages == <<"Retrieve", "RecordMetadata", "Combine", "Chunk", "EmbedAndStore">>

\* how a call into a collaborator ends
Outcomes == {"ok", "Exception", "KeyboardInterrupt"}

\* stages: the stages begun; failed, exc: the stage that raised and what it raised;
\* dl: how dl.get ended; rowsBefore: the table when main began
NoRun == [stages |-> <<>>, failed |-> None, exc |-> None, dl |-> None, initOk |-> FALSE,
          rowsBefore |-> {}, saveCalls |-> 0, closeCalls |-> 0, rowsRead |-> 0]

\* the handler logs and falls through to the return instead of raising
download_documents_swallows(ticker, doc_type, save_dir, out) ==
    CASE out = "KeyboardInterrupt" -> [exc |-> out, value |-> None]
      [] OTHER ->
            [exc |-> None,
             value |-> save_dir \o "/sec-edgar-filings/" \o Upper(ticker) \o "/" \o doc_type \o "/"]

\* main.py:29-63; out: how dl.get ended
download_documents(ticker, doc_type, save_dir, out) ==
    CASE out = "ok" ->
            [exc |-> None,
             value |-> save_dir \o "/sec-edgar-filings/" \o Upper(ticker) \o "/" \o doc_type \o "/"]
      [] out = "Exception" -> [exc |-> "Exception", value |-> None]
      [] OTHER -> [exc |-> out, value |-> None]

\* a stage raised: the exception leaves pipeline for main's handlers
Raise(stage, exc) ==
    /\ raised' = exc
    /\ pc' = "except"
    /\ run' = [run EXCEPT !.stages = Append(@, stage), !.failed = stage, !.exc = exc]

Began(stage) == run' = [run EXCEPT !.stages = Append(@, stage)]

\* main.py:183-188
MainStart ==
    \E t \in TickerArgs, d \in DocTypes, sd \in SaveDirs, connectOk \in BOOLEAN :
        LET o == init_store(Store, connectOk)
        IN /\ pc = "idle"
           /\ NewRowid(rows) <= MaxId
           /\ args' = [ticker |-> Upper(t), doc_type |-> Upper(d), save_dir |-> sd]
           /\ SetStore(o.st)
           /\ run' = [NoRun EXCEPT !.initOk = (o.exc = None), !.rowsBefore = rows]
           /\ raised' = o.exc
           /\ pc' = IF o.exc = None THEN "Retrieve" ELSE "done"
           /\ log' = <<>>
           /\ UNCHANGED <<saved, result, actually_docs_save_path, docs_path, combineVars>>

\* main.py:164-165
Retrieve ==
    \E out \in Outcomes :
        LET d == download_documents(args.ticker, args.doc_type, args.save_dir, out)
        IN /\ pc = "Retrieve"
           /\ IF d.exc = None
              THEN /\ actually_docs_save_path' = d.value
                   /\ log' = Append(log, "Downloaded")
                   /\ run' = [run EXCEPT !.stages = Append(@, "Retrieve"), !.dl = out]
                   /\ pc' = "RecordMetadata"
                   /\ UNCHANGED raised
              ELSE /\ raised' = d.exc
                   /\ pc' = "except"
                   /\ run' = [run EXCEPT !.stages = Append(@, "Retrieve"), !.dl = out,
                                         !.failed = "Retrieve", !.exc = d.exc]
                   /\ UNCHANGED <<actually_docs_save_path, log>>
           /\ UNCHANGED <<storeVars, result, args, docs_path, combineVars>>

\* main.py:167-168; committed: the INSERT was committed before the call ended
RecordMetadata ==
    \E out \in Outcomes, committed \in BOOLEAN :
        LET o == save_info(Store, args.ticker, args.doc_type, actually_docs_save_path)
            exc == IF out = "ok" /\ o.exc # None THEN "Exception"
                   ELSE IF out = "ok" THEN None ELSE out
            done == committed /\ o.exc = None
        IN /\ pc = "RecordMetadata"
           /\ out = "ok" => committed
           /\ out = "Exception" => ~committed
           /\ SetStore(IF done THEN o.st ELSE Store)
           /\ saved' = IF done
                       THEN Append(saved, <<args.ticker, args.doc_type, actually_docs_save_path>>)
                       ELSE saved
           /\ IF exc = None
              THEN /\ run' = [run EXCEPT !.stages = Append(@, "RecordMetadata"),
                                         !.saveCalls = @ + 1]
                   /\ log' = Append(log, "Saved")
                   /\ pc' = "Combine"
                   /\ UNCHANGED raised
              ELSE /\ raised' = exc
                   /\ pc' = "except"
                   /\ run' = [run EXCEPT !.stages = Append(@, "RecordMetadata"),
                                         !.failed = "RecordMetadata",
                                         !.exc = exc,
                                         !.saveCalls = @ + 1]
                   /\ UNCHANGED log
           /\ UNCHANGED <<result, args, actually_docs_save_path, docs_path, combineVars>>

\* main.py:170-172; out: how combine_documents ended
Combine ==
    \E out \in Outcomes :
        \E g \in get_info(Store, args.ticker, args.doc_type) :
            /\ pc = "Combine"
            /\ IF g.exc # None \/ g.value = <<>>
               THEN \* the query failed, or [0] raised IndexError
                    /\ raised' = "Exception"
                    /\ pc' = "except"
                    /\ run' = [run EXCEPT !.stages = Append(@, "Combine"),
                                          !.failed = "Combine",
                                          !.exc = "Exception",
                                          !.rowsRead = Len(g.value)]
                    /\ UNCHANGED <<docs_path, log>>
               ELSE /\ docs_path' = PyIndex(PyIndex(g.value, 0), 3)
                    /\ IF out = "ok"
                       THEN /\ run' = [run EXCEPT !.stages = Append(@, "Combine"),
                                                  !.rowsRead = Len(g.value)]
                            /\ log' = Append(log, "Combined")
                            /\ pc' = "Chunk"
                            /\ UNCHANGED raised
                       ELSE /\ raised' = out
                            /\ pc' = "except"
                            /\ run' = [run EXCEPT !.stages = Append(@, "Combine"),
                                                  !.failed = "Combine",
                                                  !.exc = out,
                                                  !.rowsRead = Len(g.value)]
                            /\ UNCHANGED log
            /\ UNCHANGED <<storeVars, result, args, actually_docs_save_path, combineVars>>

\* main.py:174-175
Chunk ==
    \E out \in Outcomes :
        /\ pc = "Chunk"
        /\ IF out = "ok"
           THEN /\ Began("Chunk")
                /\ log' = Append(log, "Split")
                /\ pc' = "EmbedAndStore"
                /\ UNCHANGED raised
           ELSE /\ Raise("Chunk", out)
                /\ UNCHANGED log
        /\ UNCHANGED <<storeVars, result, args, actually_docs_save_path, docs_path, combineVars>>

\* main.py:177-180
EmbedAndStore ==
    \E out \in Outcomes :
        /\ pc = "EmbedAndStore"
        /\ IF out = "ok"
           THEN /\ Began("EmbedAndStore")
                /\ log' = log \o <<"Embedding and Saving", "Uploaded">>
                /\ pc' = "finally"
                /\ UNCHANGED raised
           ELSE /\ Raise("EmbedAndStore", out)
                /\ log' = Append(log, "Embedding and Saving")
        /\ UNCHANGED <<storeVars, result, args, actually_docs_save_path, docs_path, combineVars>>

\* the handler ends the process at once (os._exit), past the finally block
ExceptKeyboardInterruptHardExit ==
    /\ pc = "except"
    /\ raised = "KeyboardInterrupt"
    /\ raised' = "SystemExit"
    /\ pc' = "done"
    /\ UNCHANGED <<storeVars, result, args, actually_docs_save_path, docs_path, run, log,
                   combineVars>>

\* main.py:192-193: exit(0) raises SystemExit inside the handler
ExceptKeyboardInterrupt ==
    /\ pc = "except"
    /\ raised = "KeyboardInterrupt"
    /\ raised' = "SystemExit"
    /\ pc' = "finally"
    /\ UNCHANGED <<storeVars, result, args, actually_docs_save_path, docs_path, run, log,
                   combineVars>>

\* the handler logs and raises the exception again
ExceptExceptionReraises ==
    /\ pc = "except"
    /\ raised = "Exception"
    /\ log' = Append(log, "Problem executing the pipeline for " \o args.ticker
                              \o " " \o args.doc_type)
    /\ pc' = "finally"
    /\ UNCHANGED <<storeVars, result, args, raised, actually_docs_save_path, docs_path, run,
                   combineVars>>

\* main.py:194-195
ExceptException ==
    /\ pc = "except"
    /\ raised = "Exception"
    /\ log' = Append(log, "Problem executing the pipeline for " \o args.ticker
                              \o " " \o args.doc_type)
    /\ raised' = None
    /\ pc' = "finally"
    /\ UNCHANGED <<storeVars, result, args, actually_docs_save_path, docs_path, run,
                   combineVars>>

\* main.py:196-198; an exception in flight is raised again when the block ends
Finally ==
    LET c == close_store_conn(Store)
    IN /\ pc = "finally"
       /\ SetStore(c.st)
       /\ run' = [run EXCEPT !.closeCalls = @ + 1]
       /\ raised' = IF c.exc # None THEN c.exc ELSE raised
       /\ log' = IF c.exc # None THEN log ELSE Append(log, "Exit")
       /\ pc' = "done"
       /\ UNCHANGED <<saved, result, args, actually_docs_save_path, docs_path, combineVars>>

\* the process ends (run.py:33-37); the next one starts from the module's initial state
Exit ==
    /\ pc = "done"
    /\ pc' = "idle"
    /\ _store_connection' = None
    /\ _cursor' = None
    /\ args' = None
    /\ raised' = None
    /\ actually_docs_save_path' = None
    /\ docs_path' = None
    /\ run' = NoRun
    /\ log' = <<>>
    /\ UNCHANGED <<tableExists, rows, saved, result, combineVars>>

Next ==
    \/ MainStart
    \/ Retrieve
    \/ RecordMetadata
    \/ Combine
    \/ Chunk
    \/ EmbedAndStore
    \/ ExceptKeyboardInterrupt
    \/ ExceptException
    \/ Finally
    \/ Exit

\* ------------------------------------------------------------------ main.py: combine_documents
\* A parsed document is the sequence of its elements in document order, each with
\* its nesting depth, its tag name and the text directly inside it.
El(depth, name, text) == [depth |-> depth, name |-> name, text |-> text]

Parsed(tree) == [parse |-> "ok", tree |-> tree]
Unparsed(exc) == [parse |-> exc, tree |-> <<>>]

\* the files the directories of the model hold: what xbrl_parser.parse makes of each
TwoParagraphs == Parsed(<<El(1, "p", ""), El(2, "span", "Revenue increased."),
                          El(1, "p", ""), El(2, "span", "Risks include X.")>>)
Foo        == Parsed(<<El(1, "p", ""), El(2, "span", "foo")>>)
Bar        == Parsed(<<El(1, "div", "bar"), El(2, "span", "")>>)
Cell       == Parsed(<<El(1, "td", ""), El(2, "span", "42")>>)
Plain      == Parsed(<<El(1, "p", "plain")>>)
NotXbrl    == Unparsed("XBRLParserException")
BadIndex   == Unparsed("IndexError")
Broken     == Unparsed("Exception")

Corpus == {TwoParagraphs, Foo, Bar, Cell, Plain, NotXbrl, BadIndex, Broken}

NoDocument == [page_content |-> "", returned |-> FALSE]

\* the elements below element i
Descendants(tree, i) ==
    {j \in (i + 1)..Len(tree) : \A k \in (i + 1)..j : tree[k].depth > tree[i].depth}

\* x.find('span'): some descendant is a span
FindSpan(tree, i) == \E j \in Descendants(tree, i) : tree[j].name = "span"

\* truth value of a Python string
Truthy(str) == str # ""

\* main.py:100, the lambda: (x.name == 'p' or 'div') and x.find('span')
Matches(tree, i) ==
    /\ IF tree[i].name = "p" THEN TRUE ELSE Truthy("div")
    /\ FindSpan(tree, i)

RECURSIVE FindAllFrom(_, _)
FindAllFrom(tree, i) ==
    IF i > Len(tree) THEN <<>>
    ELSE (IF Matches(tree, i) THEN <<i>> ELSE <<>>) \o FindAllFrom(tree, i + 1)

\* xbrl_doc.find_all(...): the matching elements, in document order
find_all(tree) == FindAllFrom(tree, 1)

RECURSIVE TextFrom(_, _, _)
TextFrom(tree, i, j) ==
    IF j > Len(tree) \/ (j > i /\ j \notin Descendants(tree, i)) THEN ""
    ELSE tree[j].text \o TextFrom(tree, i, j + 1)

\* tag.get_text(): the strings of the element and of the elements below it
get_text(tree, i) == TextFrom(tree, i, i)

\* sep.join(strs)
RECURSIVE join(_, _)
join(sep, strs) ==
    IF strs = <<>> THEN ""
    ELSE IF Len(strs) = 1 THEN strs[1]
    ELSE strs[1] \o sep \o join(sep, Tail(strs))

\* main.py:101
ExtractText(tree, tags) == join(" ", [k \in 1..Len(tags) |-> get_text(tree, tags[k])])

\* every text is followed by the separator
RECURSIVE JoinDocumentsTrailing(_)
JoinDocumentsTrailing(texts) ==
    IF texts = <<>> THEN ""
    ELSE texts[1] \o "\n\n" \o JoinDocumentsTrailing(Tail(texts))

\* main.py:104
JoinDocuments(texts) == join("\n\n", texts)

CombineFrame ==
    UNCHANGED <<storeVars, result, pc, args, raised, actually_docs_save_path, docs_path, run>>

\* main.py:83-87: the next directory is loaded
LoadDirectory ==
    /\ cpc = "dirs"
    /\ di < Len(dir_paths)
    /\ di' = di + 1
    /\ fi' = 0
    /\ cpc' = "documents"
    /\ UNCHANGED <<dir_paths, xbrl_texts, p_span_tags, combined, log>>
    /\ CombineFrame

\* the document the inner loop is at
Document == dir_paths[di][fi]

\* what a failed parse logs, main.py:92, 95, 98
Skipped(exc) ==
    CASE exc = "XBRLParserException" -> "WARNING Skipped document: is not a XBRL document"
      [] exc = "IndexError" -> "WARNING Skipped document: is not a valid XBRL document"
      [] OTHER -> "ERROR Failed to parse document"

\* the handlers keep an empty text for the document that failed
SkipDocumentKeepsEmptyText ==
    /\ cpc = "documents"
    /\ fi < Len(dir_paths[di])
    /\ fi' = fi + 1
    /\ dir_paths[di][fi'].parse # "ok"
    /\ log' = Append(log, Skipped(dir_paths[di][fi'].parse))
    /\ xbrl_texts' = Append(xbrl_texts, "")
    /\ UNCHANGED <<cpc, dir_paths, di, p_span_tags, combined>>
    /\ CombineFrame

\* main.py:88-99: parse raised and the document is skipped
SkipDocument ==
    /\ cpc = "documents"
    /\ fi < Len(dir_paths[di])
    /\ fi' = fi + 1
    /\ dir_paths[di][fi'].parse # "ok"
    /\ log' = Append(log, Skipped(dir_paths[di][fi'].parse))
    /\ UNCHANGED <<cpc, dir_paths, di, xbrl_texts, p_span_tags, combined>>
    /\ CombineFrame

\* the text is put in front of the list instead of at its end
ExtractDocumentPrepends ==
    /\ cpc = "documents"
    /\ fi < Len(dir_paths[di])
    /\ fi' = fi + 1
    /\ dir_paths[di][fi'].parse = "ok"
    /\ p_span_tags' = find_all(dir_paths[di][fi'].tree)
    /\ xbrl_texts' = <<ExtractText(dir_paths[di][fi'].tree, p_span_tags')>> \o xbrl_texts
    /\ UNCHANGED <<cpc, dir_paths, di, combined, log>>
    /\ CombineFrame

\* main.py:88-90, 100-102: the document parsed and its text is kept
ExtractDocument ==
    /\ cpc = "documents"
    /\ fi < Len(dir_paths[di])
    /\ fi' = fi + 1
    /\ dir_paths[di][fi'].parse = "ok"
    /\ p_span_tags' = find_all(dir_paths[di][fi'].tree)
    /\ xbrl_texts' = Append(xbrl_texts, ExtractText(dir_paths[di][fi'].tree, p_span_tags'))
    /\ UNCHANGED <<cpc, dir_paths, di, combined, log>>
    /\ CombineFrame

\* the inner loop ends
EndDirectory ==
    /\ cpc = "documents"
    /\ fi = Len(dir_paths[di])
    /\ cpc' = "dirs"
    /\ UNCHANGED <<dir_paths, di, fi, xbrl_texts, p_span_tags, combined, log>>
    /\ CombineFrame

\* main.py:104-105
ReturnDocument ==
    /\ cpc = "dirs"
    /\ di = Len(dir_paths)
    /\ combined' = [page_content |-> JoinDocuments(xbrl_texts), returned |-> TRUE]
    /\ cpc' = "done"
    /\ UNCHANGED <<dir_paths, di, fi, xbrl_texts, p_span_tags, log>>
    /\ CombineFrame

NextCombine ==
    \/ LoadDirectory
    \/ SkipDocument
    \/ ExtractDocument
    \/ EndDirectory
    \/ ReturnDocument

\* the directory lists with at most MaxDirs directories and MaxFiles files in all
RECURSIVE Sum(_, _)
Sum(f, n) == IF n = 0 THEN 0 ELSE f[n] + Sum(f, n - 1)

Slice(files, sizes, d) ==
    [k \in 1..sizes[d] |-> files[Sum(sizes, d - 1) + k]]

\* dirs is a list of n directories holding the files, sizes[d] of them in directory d
IsInput(dirs, n, sizes, files) ==
    dirs = [d \in 1..n |-> Slice(files, sizes, d)]

InitStore ==
    /\ _store_connection = None
    /\ _cursor = None
    /\ tableExists = FALSE
    /\ rows = {}
    /\ saved = <<>>
    /\ result = NoResult
    /\ pc = "idle"
    /\ args = None
    /\ raised = None
    /\ actually_docs_save_path = None
    /\ docs_path = None
    /\ run = NoRun
    /\ log = <<>>

Init ==
    /\ InitStore
    /\ cpc = "idle"
    /\ dir_paths = <<>>
    /\ di = 0
    /\ fi = 0
    /\ xbrl_texts = <<>>
    /\ p_span_tags = <<>>
    /\ combined = NoDocument

Spec == Init /\ [][Next]_vars

SpecStore == Init /\ [][NextStore]_vars

\* combine_documents is called with dir_paths (main.py:81-82)
InitCombine ==
    /\ InitStore
    /\ cpc = "dirs"
    /\ \E n \in 0..MaxDirs :
          \E sizes \in {sz \in [1..n -> 0..MaxFiles] : Sum(sz, n) <= MaxFiles} :
              \E files \in [1..Sum(sizes, n) -> Corpus] :
                  IsInput(dir_paths, n, sizes, files)
    /\ di = 0
    /\ fi = 0
    /\ xbrl_texts = <<>>
    /\ p_span_tags = <<>>
    /\ combined = NoDocument

SpecCombine == InitCombine /\ [][NextCombine]_vars

\* ================================================================== properties
\* ------------------------------------------------------------------ the metadata store
\* the saves that are the last one for their (ticker, doc_type)
LastSaves ==
    {k \in 1..Len(saved) :
        \A j \in (k + 1)..Len(saved) :
            ~(saved[j][1] = saved[k][1] /\ saved[j][2] = saved[k][2])}

\* C1: after any sequence of save_info calls the table holds at most one row for
\* a (ticker, doc_type), that row carries the dir_path of the last save_info for
\* the pair, and the rows of the other pairs are the ones their own last
\* save_info left (same id, same dir_path): a save changes no other pair's row.
C1_OneRecordPerPair ==
    /\ \A r1, r2 \in rows : (r1[2] = r2[2] /\ r1[3] = r2[3]) => r1 = r2
    /\ rows = {<<k, saved[k][1], saved[k][2], saved[k][3], "CURRENT_TIMESTAMP">> :
                   k \in LastSaves}

\* (AAPL, 10-K, "/p1") then (AAPL, 10-K, "/p2") were saved, after a save for another pair
C1_Witness ==
    /\ Len(saved) = 3
    /\ saved[1][1] = "MSFT"
    /\ saved[2] = <<"AAPL", "10-K", "/p1">>
    /\ saved[3] = <<"AAPL", "10-K", "/p2">>
    /\ result.op = "save_info"
    /\ Cardinality(Selected(rows, "AAPL", "10-K")) = 1
    /\ \E r \in rows : r[2] = "AAPL" /\ r[4] = "/p2"

\* C3: close_store_conn called when the connection is closed (or was never
\* opened) prints the warning, raises nothing and leaves the store as it was.
C3_CloseWhenClosedIsNoOp ==
    (result.op = "close_store_conn" /\ result.pre = None)
        => /\ result.printed
           /\ result.exc = None
           /\ _store_connection = None

\* ------------------------------------------------------------------ main and pipeline
InPipeline == pc \in {"Retrieve", "RecordMetadata", "Combine", "Chunk", "EmbedAndStore"}

Last(seq) == seq[Len(seq)]

IsPrefix(p, q) == Len(p) <= Len(q) /\ \A k \in 1..Len(p) : p[k] = q[k]

\* C2: once init_store has succeeded, close_store_conn runs exactly once, after
\* the pipeline has ended (not before), whether the pipeline returned, raised
\* an exception or was interrupted; when main has ended no connection is open.
C2_CloseOnceOnEveryOutcome ==
    run.initOk =>
        /\ (InPipeline \/ pc \in {"except", "finally"})
               => (run.closeCalls = 0 /\ _store_connection = "open")
        /\ pc = "except" => ENABLED (ExceptKeyboardInterrupt \/ ExceptException)
        /\ pc = "finally" => ENABLED Finally
        /\ pc = "done" => (run.closeCalls = 1 /\ _store_connection = None)

\* main ended after a KeyboardInterrupt in the embedding stage
C2_Witness ==
    /\ pc = "done"
    /\ run.initOk
    /\ run.failed = "EmbedAndStore"
    /\ run.exc = "KeyboardInterrupt"
    /\ raised = "SystemExit"
    /\ run.closeCalls = 1

\* C4: the stages of a run begin in the order Retrieve, RecordMetadata, Combine,
\* Chunk, EmbedAndStore, each at most once; the stage that raised is the last
\* one begun; an exception (not an interrupt) raised by a stage is logged by
\* main and does not leave main.
C4_StagesInOrder ==
    /\ IsPrefix(run.stages, Stages)
    /\ InPipeline => (run.failed = None /\ pc = Stages[Len(run.stages) + 1])
    /\ run.failed # None =>
           (pc \in {"except", "finally", "done"} /\ Last(run.stages) = run.failed)
    /\ (run.exc = "Exception" /\ pc \in {"finally", "done"}) =>
           /\ raised = None
           /\ \E k \in 1..Len(log) :
                  log[k] = "Problem executing the pipeline for " \o args.ticker
                               \o " " \o args.doc_type
    /\ (run.exc = "Exception" /\ pc = "done") => Last(log) = "Exit"

\* the chunker raised after three stages completed, and main returned
C4_Witness ==
    /\ pc = "done"
    /\ run.stages = <<"Retrieve", "RecordMetadata", "Combine", "Chunk">>
    /\ run.failed = "Chunk"
    /\ run.exc = "Exception"
    /\ raised = None

C10_ReadsBackOwnPath ==
    docs_path # None =>
        /\ docs_path = actually_docs_save_path
        /\ run.rowsRead = 1

\* the table held an older record of the pair, with another path, and a record
\* of another document type of the same ticker
C10_Witness ==
    /\ docs_path # None
    /\ \E r \in run.rowsBefore :
           r[2] = args.ticker /\ r[3] = args.doc_type /\ r[4] # docs_path
    /\ \E r \in run.rowsBefore : r[2] = args.ticker /\ r[3] # args.doc_type

\* ------------------------------------------------------------------ combine_documents
RECURSIVE Flatten(_)
Flatten(dirs) == IF dirs = <<>> THEN <<>> ELSE dirs[1] \o Flatten(Tail(dirs))

\* every file of the input, directory by directory
AllFiles == Flatten(dir_paths)

\* the files the loops have been through
Visited ==
    IF di = 0 THEN <<>>
    ELSE Flatten(SubSeq(dir_paths, 1, di - 1)) \o SubSeq(dir_paths[di], 1, fi)

IsParsed(file) == file.parse = "ok"

\* the text the code extracts from a file that parsed
TextOf(file) == ExtractText(file.tree, find_all(file.tree))

RECURSIVE Concatenated(_, _)
Concatenated(files, n) ==
    IF n = 0 THEN ""
    ELSE IF ~IsParsed(files[n]) THEN Concatenated(files, n - 1)
    ELSE IF SelectSeq(SubSeq(files, 1, n - 1), IsParsed) = <<>> THEN TextOf(files[n])
    ELSE Concatenated(files, n - 1) \o "\n\n" \o TextOf(files[n])

\* C8: the combined text is the texts of the files that parsed, in directory
\* order and, within a directory, in the order the files were loaded, with
\* "\n\n" between consecutive texts and nothing before the first or after the
\* last; directories [A, B] yielding "foo" and "bar" give "foo\n\nbar".
C8_JoinedInOrder ==
    cpc = "done" =>
        /\ combined.page_content = Concatenated(AllFiles, Len(AllFiles))
        /\ dir_paths = <<<<Foo>>, <<Bar>>>> => combined.page_content = "foo\n\nbar"

\* three files in two directories, all parsed, with different texts
C8_Witness ==
    /\ cpc = "done"
    /\ dir_paths = <<<<Foo, TwoParagraphs>>, <<Bar>>>>
    /\ combined.page_content = "foo\n\nRevenue increased. Risks include X.\n\nbar"

\* no file yields text: each fails parsing or its extracted text is empty
NoFileYieldsText ==
    \A k \in 1..Len(AllFiles) : ~IsParsed(AllFiles[k]) \/ TextOf(AllFiles[k]) = ""

RECURSIVE Repeated(_, _)
Repeated(str, n) == IF n <= 0 THEN "" ELSE str \o Repeated(str, n - 1)

ParagraphsWithSpan(tree) ==
    {i \in 1..Len(tree) : tree[i].name \in {"p", "div"} /\ FindSpan(tree, i)}

\* C7: for the file just parsed, the selected elements are exactly the p and
\* div elements with a span descendant, its text is theirs joined by single
\* spaces, and the file of two paragraphs yields
\* "Revenue increased. Risks include X.".
C7_SelectsParagraphsWithSpan ==
    (cpc = "documents" /\ fi > 0 /\ IsParsed(Document)) =>
        /\ {p_span_tags[k] : k \in 1..Len(p_span_tags)} = ParagraphsWithSpan(Document.tree)
        /\ Last(xbrl_texts) =
               join(" ", [k \in 1..Len(p_span_tags) |-> get_text(Document.tree, p_span_tags[k])])
        /\ Document = TwoParagraphs
               => Last(xbrl_texts) = "Revenue increased. Risks include X."

====
